---- MODULE Spec2Model ----
(***************************************************************************)
(* A model of veloren_vox_placer (src/src/main.rs): the rotation decoding  *)
(* of Transform nodes, the scene-graph traversal of SparseScene::new_from, *)
(* render_model, PlaceSpec::build_place and the output loop of main.       *)
(***************************************************************************)
EXTENDS Integers, Sequences, FiniteSets, TLC

(***************************************************************************)
(* Machine integers.  i32 arithmetic is kept at its width: an operation    *)
(* whose exact result leaves the i32 range panics in a build with overflow *)
(* checks and wraps modulo 2^32 in a build without them.  The wrapped      *)
(* results are computed without leaving the i32 range on the way.          *)
(***************************************************************************)
MaxI32 == 2147483647
MinI32 == (-MaxI32) - 1

AddOvf(a, b) ==
    IF b >= 0 THEN a > MaxI32 - b ELSE a < MinI32 - b

WrapAdd(a, b) ==
    IF b >= 0
    THEN IF a > MaxI32 - b THEN (a - MaxI32 - 1) + (b - MaxI32 - 1) ELSE a + b
    ELSE IF a < MinI32 - b THEN (a + MaxI32 + 1) + (b + MaxI32 + 1) ELSE a + b

NegOvf(a) == a = MinI32
WrapNeg(a) == IF a = MinI32 THEN MinI32 ELSE -a

SubOvf(a, b) == IF b = MinI32 THEN a >= 0 ELSE AddOvf(a, -b)
WrapSub(a, b) == WrapAdd(a, WrapNeg(b))

\* A product with a matrix entry; the entries of every rotation are -1, 0 or 1
\* (RotEntriesOk below), and translations multiply only with those.
MulOvf(m, v) == m = -1 /\ NegOvf(v)
WrapMul(m, v) ==
    CASE m = 0 -> 0
      [] m = 1 -> v
      [] m = -1 -> WrapNeg(v)
      [] OTHER -> m * v

Abs(e) == IF e < 0 THEN -e ELSE e
Min(a, b) == IF a < b THEN a ELSE b

\* Rust's `/` on i32 truncates toward zero.
TruncDiv(a, b) == IF a >= 0 THEN a \div b ELSE -((-a) \div b)

(***************************************************************************)
(* Vec3 and Mat3 (row-major, as Mat3::new takes its entries).              *)
(***************************************************************************)
Axes == 1..3
Vec(x, y, z) == <<x, y, z>>
Zero3 == Vec(0, 0, 0)
One3 == Vec(1, 1, 1)
Identity == <<Vec(1, 0, 0), Vec(0, 1, 0), Vec(0, 0, 1)>>

VAdd(u, v) == [i \in Axes |-> WrapAdd(u[i], v[i])]
VAddOvf(u, v) == \E i \in Axes : AddOvf(u[i], v[i])

\* rot * v: each row's three products, summed left to right.
RowDot(row, v) ==
    WrapAdd(WrapAdd(WrapMul(row[1], v[1]), WrapMul(row[2], v[2])), WrapMul(row[3], v[3]))
RowDotOvf(row, v) ==
    \/ \E j \in Axes : MulOvf(row[j], v[j])
    \/ AddOvf(WrapMul(row[1], v[1]), WrapMul(row[2], v[2]))
    \/ AddOvf(WrapAdd(WrapMul(row[1], v[1]), WrapMul(row[2], v[2])), WrapMul(row[3], v[3]))
MulMV(m, v) == [i \in Axes |-> RowDot(m[i], v)]
MulMVOvf(m, v) == \E i \in Axes : RowDotOvf(m[i], v)

\* a * b for two rotations (entries stay in -1..1, no overflow).
MulMM(a, b) ==
    [i \in Axes |-> [j \in Axes |->
        a[i][1] * b[1][j] + a[i][2] * b[2][j] + a[i][3] * b[3][j]]]

MapAbs(m) == [i \in Axes |-> [j \in Axes |-> Abs(m[i][j])]]

(***************************************************************************)
(* u8 bit operations used by the `_r` decoding.                            *)
(***************************************************************************)
RECURSIVE BitAndW(_, _, _)
BitAndW(a, b, w) ==
    IF w = 0 THEN 0
    ELSE (IF a % 2 = 1 /\ b % 2 = 1 THEN 1 ELSE 0) + 2 * BitAndW(a \div 2, b \div 2, w - 1)
RECURSIVE BitOrW(_, _, _)
BitOrW(a, b, w) ==
    IF w = 0 THEN 0
    ELSE (IF a % 2 = 1 \/ b % 2 = 1 THEN 1 ELSE 0) + 2 * BitOrW(a \div 2, b \div 2, w - 1)
BitAnd(a, b) == BitAndW(a, b, 8)
BitOr(a, b) == BitOrW(a, b, 8)
BitNot(a) == 255 - a
RECURSIVE Pow2(_)
Pow2(k) == IF k = 0 THEN 1 ELSE 2 * Pow2(k - 1)
Shr(a, k) == a \div Pow2(k)

(***************************************************************************)
(* The `_r` field of a frame: <<>> when the frame has no `_r` entry or its *)
(* text does not parse as a u8, <<n>> when it parses to n.                 *)
(***************************************************************************)
Signs(n) ==
    << IF BitAnd(Shr(n, 4), 1) = 0 THEN 1 ELSE -1,
       IF BitAnd(Shr(n, 5), 1) = 0 THEN 1 ELSE -1,
       IF BitAnd(Shr(n, 6), 1) = 0 THEN 1 ELSE -1 >>

rows == <<Vec(1, 0, 0), Vec(0, 1, 0), Vec(0, 0, 1)>>

\* The index expression of r3: !(n | (n >> 2)) & 3.
ThirdRowIndexNoNot(n) == BitAnd(BitOr(n, Shr(n, 2)), 3)
ThirdRowIndex(n) == BitAnd(BitNot(BitOr(n, Shr(n, 2))), 3)

\* The guard of the decoding closure: n & 3 != 3 && n >> 2 != 3.
FormatKnown(n) == BitAnd(n, 3) /= 3 /\ Shr(n, 2) /= 3

\* The closure given to and_then: "some" with the matrix, "none" for the
\* unknown format, "panic" when an index into `rows` is out of bounds.
DecodeRotation(n) ==
    LET i1 == BitAnd(n, 3)
        i2 == BitAnd(Shr(n, 2), 3)
        i3 == ThirdRowIndex(n)
        s == Signs(n)
    IN  IF ~FormatKnown(n) THEN [kind |-> "none", m |-> Identity]
        ELSE IF i1 > 2 \/ i2 > 2 \/ i3 > 2 THEN [kind |-> "panic", m |-> Identity]
        ELSE [kind |-> "some",
              m |-> << [j \in Axes |-> rows[i1 + 1][j] * s[1]],
                       [j \in Axes |-> rows[i2 + 1][j] * s[2]],
                       [j \in Axes |-> rows[i3 + 1][j] * s[3]] >>]

\* frame.get("_r").and_then(..).unwrap_or(Mat3::identity())
FrameRotation(rfield) ==
    IF rfield = <<>> THEN [kind |-> "some", m |-> Identity]
    ELSE LET d == DecodeRotation(rfield[1])
         IN  IF d.kind = "none" THEN [kind |-> "some", m |-> Identity] ELSE d

(***************************************************************************)
(* Bounds of the model.                                                    *)
(***************************************************************************)
\* The edge of a chunk.  SscSize::SIZE is 32 on every axis; the model keeps
\* the chunk arithmetic and scales the edge so that the output loop, which
\* visits every cell of every chunk, stays small.
SIZE == 2
\* The longest list of pieces a placement spec holds.
MaxPieces == 2

(***************************************************************************)
(* dot_vox data: scene nodes, models, palette.                             *)
(***************************************************************************)
\* A frame of a Transform node.  t is <<>> when `_t` is missing or does not
\* parse as three i32, else the vector; r is the `_r` field as above.
Frame(t, r) == [t |-> t, r |-> r]

TransformNode(frames, child) ==
    [kind |-> "Transform", frames |-> frames, child |-> child,
     children |-> <<>>, models |-> <<>>]
GroupNode(children) ==
    [kind |-> "Group", frames |-> <<>>, child |-> 0,
     children |-> children, models |-> <<>>]
ShapeNode(models) ==
    [kind |-> "Shape", frames |-> <<>>, child |-> 0,
     children |-> <<>>, models |-> models]

Voxel(x, y, z, i) == [x |-> x, y |-> y, z |-> z, i |-> i]
Model(size, voxels) == [size |-> size, voxels |-> voxels]

WaterCol == Vec(4, 119, 191)
LavaCol == Vec(170, 56, 56)
LampCol == Vec(243, 255, 113)
LianaCol == Vec(0, 200, 80)
PotCol == Vec(191, 255, 0)
GrassCol == Vec(63, 96, 12)
ChestCol == Vec(144, 31, 31)
BowlCol == Vec(194, 231, 147)
Clay == Vec(200, 100, 50)
Slate == Vec(9, 9, 9)

\* A palette of 17 colours: index 0 is (4,119,191), index 1 (63,96,12),
\* index 16 (9,9,9); every other index is (200,100,50).
Palette17 ==
    [k \in 1..17 |->
        CASE k = 1 -> WaterCol
          [] k = 2 -> GrassCol
          [] k = 17 -> Slate
          [] OTHER -> Clay]

Cube2 == Model(Vec(2, 2, 2), <<Voxel(0, 0, 0, 0)>>)
Unit == Model(Vec(1, 1, 1), <<Voxel(0, 0, 0, 3)>>)
\* A bar along x: a voxel at each end (the far one with palette index 16) and
\* between them one whose palette index lies beyond the palette.
Bar == Model(Vec(3, 1, 1),
             <<Voxel(0, 0, 0, 2), Voxel(1, 0, 0, 200), Voxel(2, 0, 0, 16)>>)

\* One (2,2,2) model with a single voxel under a Transform without frames.
SingleData ==
    [palette |-> Palette17, models |-> <<Cube2>>,
     scene |-> <<TransformNode(<<>>, 1), ShapeNode(<<0>>)>>]

\* One Shape naming two models, the second inside the first, under a
\* Transform that translates by t0.
NestData(t0) ==
    [palette |-> Palette17, models |-> <<Bar, Unit>>,
     scene |-> <<TransformNode(<<Frame(t0, <<>>)>>, 1), ShapeNode(<<0, 1>>)>>]

\* A Shape that names no model the file holds: nothing is rasterized.
BareData ==
    [palette |-> Palette17, models |-> <<>>,
     scene |-> <<TransformNode(<<>>, 1), ShapeNode(<<3>>)>>]

\* A Transform whose child index names no node.
DanglingData ==
    [palette |-> Palette17, models |-> <<Unit>>,
     scene |-> <<TransformNode(<<>>, 3)>>]

\* root Transform(t0, r0) -> Group -> { Transform -> Shape[Bar],
\*                                      Transform -> Shape[Unit, no such model] }
TreeData(t0, r0) ==
    [palette |-> Palette17, models |-> <<Bar, Unit>>,
     scene |-> << TransformNode(<<Frame(t0, r0)>>, 1),
                  GroupNode(<<2, 4>>),
                  TransformNode(<<Frame(Vec(0, 1, 0), <<17>>)>>, 3),
                  ShapeNode(<<0>>),
                  TransformNode(<<Frame(Vec(-1, 0, 0), <<>>), Frame(Vec(5, 5, 5), <<40>>)>>, 5),
                  ShapeNode(<<1, 7>>) >>]

\* The asset "voxygen.voxel.not_found".
NotFoundData ==
    [palette |-> Palette17, models |-> <<Unit>>,
     scene |-> <<TransformNode(<<>>, 1), ShapeNode(<<0>>)>>]

\* The asset stored under "b": a unit model one step up.
PoleData ==
    [palette |-> Palette17, models |-> <<Unit>>,
     scene |-> <<TransformNode(<<Frame(Vec(0, 0, 1), <<>>)>>, 1), ShapeNode(<<0>>)>>]

RootTranslations == {<<>>, Vec(2, 2, -2), Vec(MaxI32, 0, 0)}
RootRotations == {<<>>, <<4>>, <<17>>, <<40>>, <<5>>, <<0>>}

Catalog ==
    {SingleData, BareData, DanglingData}
        \cup {NestData(t0) : t0 \in RootTranslations}
        \cup {TreeData(t0, r0) : t0 \in RootTranslations, r0 \in RootRotations}

\* Placement specs: VoxSpec(specifier, offset) lists.
VoxSpec(specifier, offset) == [specifier |-> specifier, offset |-> offset]
Prefix(s, k) == SubSeq(s, 1, Min(k, Len(s)))
PieceBases ==
    { << VoxSpec("a", Zero3), VoxSpec("b", Vec(2, 2, -2)), VoxSpec("a", Vec(2, 2, -2)) >>,
      << VoxSpec("a", Vec(2, 2, -2)), VoxSpec("zzz", Zero3), VoxSpec("b", Zero3) >>,
      << VoxSpec("zzz", Vec(2, 2, -2)), VoxSpec("a", Zero3), VoxSpec("a", Zero3) >>,
      << VoxSpec("b", Zero3), VoxSpec("a", Zero3), VoxSpec("zzz", Zero3) >> }
PieceLists == {Prefix(base, k) : base \in PieceBases, k \in 0..MaxPieces}
AssetNames == {"a", "b"}

(***************************************************************************)
(* Cells, blocks and the classification of main's output loop.             *)
(***************************************************************************)
\* Cell::new(color, glowy, shiny, hollow) and Cell::empty().
CellNew(col, glowy, shiny, hollow) ==
    [filled |-> TRUE, col |-> col, glowy |-> glowy, shiny |-> shiny, hollow |-> hollow]
CellEmpty ==
    [filled |-> FALSE, col |-> Zero3, glowy |-> FALSE, shiny |-> FALSE, hollow |-> FALSE]

\* Blocks, as the constructor calls that make them.
BlockNew(kind, col) == [ctor |-> "new", kind |-> kind, sprite |-> "-", col |-> col]
BlockAir(sprite) == [ctor |-> "air", kind |-> "Air", sprite |-> sprite, col |-> Zero3]
BlockWater(sprite) == [ctor |-> "water", kind |-> "Water", sprite |-> sprite, col |-> Zero3]
BlockEmpty == [ctor |-> "empty", kind |-> "Air", sprite |-> "Empty", col |-> Zero3]

\* The fallback arm `_ =>` of the colour match.
FlagFallback(cell) ==
    IF cell.hollow THEN BlockAir("Empty")
    ELSE IF cell.glowy THEN BlockNew("GlowingRock", cell.col)
    ELSE IF cell.shiny THEN BlockWater("Empty")
    ELSE BlockNew("Misc", cell.col)

\* The block main hands to set_block for a cell; gen_bool is the value
\* rand::thread_rng().gen_bool(0.5) returns when the arm asks for it.
Classify(cell, gen_bool) ==
    IF ~cell.filled THEN BlockEmpty
    ELSE CASE cell.col = WaterCol -> BlockNew("Water", Zero3)
           [] cell.col = LavaCol -> BlockNew("Lava", Vec(255, 65, 0))
           [] cell.col = LampCol -> BlockAir("StreetLamp")
           [] cell.col = LianaCol -> BlockAir("Liana")
           [] cell.col = PotCol -> BlockAir("CookingPot")
           [] cell.col = GrassCol ->
                IF gen_bool THEN BlockAir("JungleRedGrass") ELSE BlockAir("JungleFern")
           [] cell.col = ChestCol -> BlockAir("DungeonChest4")
           [] cell.col = BowlCol -> BlockAir("FireBowlGround")
           [] OTHER -> FlagFallback(cell)

(***************************************************************************)
(* The sparse chunked grid.                                                *)
(***************************************************************************)
\* VolGrid3d::pos_key: the chunk a position lies in (floor division).
pos_key(pos) == [i \in Axes |-> pos[i] \div SIZE]

RECURSIVE WrapTimes(_, _)
WrapTimes(a, k) == IF k = 0 THEN 0 ELSE WrapAdd(WrapTimes(a, k - 1), a)
\* VolGrid3d::key_pos: the min corner of a chunk.
key_pos(key) == [i \in Axes |-> WrapTimes(key[i], SIZE)]

\* The position inside a chunk of the idx-th cell of full_vol_iter.
CellsPerChunk == SIZE * SIZE * SIZE
ChunkOffset(idx) == Vec(idx % SIZE, (idx \div SIZE) % SIZE, idx \div (SIZE * SIZE))

\* Aabb::contains_point: inclusive on both corners.
contains_point(aabb, p) == \A i \in Axes : aabb.min[i] <= p[i] /\ p[i] <= aabb.max[i]

(***************************************************************************)
(* The state of a run.                                                     *)
(***************************************************************************)
VARIABLES
    overflow_checks,  \* the build panics on i32 overflow (else it wraps)
    store,            \* the assets DotVoxAsset::load finds, by specifier
    pieces,           \* PlaceSpec.pieces
    pc,               \* where the run is
    panic,            \* why the run panicked, "" while it has not
    dot_vox_data,     \* the asset new_from was called with
    stack,            \* the activations of insert_scene, innermost last
    chunks,           \* the keys of the chunks of sparse_scene
    cells,            \* the non-empty cells of sparse_scene, by position
    aabbs,            \* the boxes pushed so far
    render,           \* the activation of render_model
    placed,           \* every (specifier, offset) new_from was called for
    visits,           \* every (Shape node, rot, trans) render_model was called with
    last_write,       \* the position of render_model's latest set
    pending,          \* the chunks vox.iter() has yet to yield
    chunk_key,        \* the chunk being filled, <<>> between chunks
    cell_idx,         \* how many cells of it full_vol_iter has yielded
    blocks,           \* the blocks set_block stored, by position
    set_calls,        \* the number of set_block calls
    unload_calls,     \* the number of unload_all calls
    set_after_unload, \* a set_block call followed an unload_all call
    rfieldIn,         \* decoding on its own: the `_r` field
    decoded,          \* decoding on its own: the result
    cellIn,           \* classification on its own: the cell
    run1, run2        \* classification on its own: the block of each run

vars ==
    <<overflow_checks, store, pieces, pc, panic, dot_vox_data, stack, chunks, cells,
      aabbs, render, placed, visits, last_write, pending, chunk_key, cell_idx, blocks,
      set_calls, unload_calls, set_after_unload, rfieldIn, decoded, cellIn, run1, run2>>

runVars ==
    <<overflow_checks, store, pieces, pc, panic, dot_vox_data, stack, chunks, cells,
      aabbs, render, placed, visits, last_write, pending, chunk_key, cell_idx, blocks,
      set_calls, unload_calls, set_after_unload>>
decodeVars == <<rfieldIn, decoded>>
classifyVars == <<cellIn, run1, run2>>

EmptyData == [palette |-> <<>>, models |-> <<>>, scene |-> <<>>]
NoRender ==
    [model |-> 0, rot |-> Identity, size |-> Zero3, pos |-> Zero3, offset |-> Zero3, vi |-> 0]
Undecoded == [kind |-> "pending", m |-> Identity]

\* Everything of a run before main starts, for the given inputs and phase.
RunState(checks, assets, list, phase) ==
    /\ overflow_checks = checks
    /\ store = assets
    /\ pieces = list
    /\ pc = phase
    /\ panic = ""
    /\ dot_vox_data = EmptyData
    /\ stack = <<>>
    /\ chunks = {}
    /\ cells = <<>>
    /\ aabbs = <<>>
    /\ render = NoRender
    /\ placed = <<>>
    /\ visits = {}
    /\ last_write = <<>>
    /\ pending = {}
    /\ chunk_key = <<>>
    /\ cell_idx = 0
    /\ blocks = <<>>
    /\ set_calls = 0
    /\ unload_calls = 0
    /\ set_after_unload = FALSE

NoRun == RunState(FALSE, <<>>, <<>>, "idle")
NoDecode == rfieldIn = <<>> /\ decoded = Undecoded
NoClassify == cellIn = CellEmpty /\ run1 = <<>> /\ run2 = <<>>

\* main starts: a build, the assets on disk, the placement spec.
Init ==
    /\ \E checks \in BOOLEAN, a \in Catalog, list \in PieceLists :
            RunState(checks, [name \in AssetNames |-> IF name = "a" THEN a ELSE PoleData],
                     list, "build_place")
    /\ NoDecode
    /\ NoClassify

(***************************************************************************)
(* PlaceSpec::build_place and SparseScene::new_from.                       *)
(***************************************************************************)
hack == "asset that doesn't exist"

\* graceful_load_vox: the asset, or "voxygen.voxel.not_found" when it cannot
\* be loaded.
graceful_load_vox(name) ==
    IF name \in DOMAIN store THEN store[name] ELSE NotFoundData

\* The pieces build_place hands to new_from: pieces.get(0), or the asset that
\* does not exist at the zero offset when the list is empty.
PiecesBuilt(list) ==
    IF Len(list) > 0 THEN <<list[1]>> ELSE <<VoxSpec(hack, Zero3)>>

Activation(scene, rot, trans) ==
    [scene |-> scene, rot |-> rot, trans |-> trans, next |-> 1]

\* build_place up to new_from's call of insert_scene for the root node.
BuildPlace ==
    /\ pc = "build_place"
    /\ LET piece == PiecesBuilt(pieces)[1]
       IN  /\ dot_vox_data' = graceful_load_vox(piece.specifier)
           /\ placed' = Append(placed, piece)
           /\ stack' = <<Activation(0, Identity, piece.offset)>>
    /\ chunks' = {}
    /\ cells' = <<>>
    /\ aabbs' = <<>>
    /\ pc' = "insert_scene"
    /\ UNCHANGED <<overflow_checks, store, pieces, panic, render, visits, last_write,
                   pending, chunk_key, cell_idx, blocks, set_calls, unload_calls,
                   set_after_unload, decodeVars, classifyVars>>

(***************************************************************************)
(* insert_scene.                                                           *)
(***************************************************************************)
Top == stack[Len(stack)]
NodeKnown == Top.scene < Len(dot_vox_data.scene)
Node == dot_vox_data.scene[Top.scene + 1]
SetTop(frame) == [stack EXCEPT ![Len(stack)] = frame]

Panic(why) ==
    /\ pc' = "panic"
    /\ panic' = why
    /\ UNCHANGED <<stack, chunks, cells, aabbs, render, visits, last_write>>

\* dot_vox_data.scene.get(scene).unwrap() on an index that names no node.
SceneUnwrapFails ==
    /\ pc = "insert_scene"
    /\ stack /= <<>>
    /\ ~NodeKnown
    /\ Panic("scene_unwrap")
    /\ UNCHANGED <<overflow_checks, store, pieces, dot_vox_data, placed, pending,
                   chunk_key, cell_idx, blocks, set_calls, unload_calls,
                   set_after_unload, decodeVars, classifyVars>>

\* frame.get("_t")...unwrap_or_default()
FrameTranslation(tfield) == IF tfield = <<>> THEN Zero3 ELSE tfield

\* trans += rot * t; rot *= r;
ComposeTransformRotFirst(rot, trans, r, t) ==
    [rot |-> MulMM(rot, r), trans |-> VAdd(trans, MulMV(MulMM(rot, r), t))]
ComposeTransform(rot, trans, r, t) ==
    [rot |-> MulMM(rot, r), trans |-> VAdd(trans, MulMV(rot, t))]
ComposeOvf(rot, trans, t) == MulMVOvf(rot, t) \/ VAddOvf(trans, MulMV(rot, t))

\* A Transform node: the first frame, if any, updates rot and trans, and the
\* child is entered with them.
EnterTransform ==
    /\ pc = "insert_scene"
    /\ stack /= <<>>
    /\ NodeKnown
    /\ Node.kind = "Transform"
    /\ Top.next = 1
    /\ LET hasFrame == Len(Node.frames) > 0
           frame == Node.frames[1]
           t == FrameTranslation(frame.t)
           r == FrameRotation(frame.r)
           new == IF hasFrame
                  THEN ComposeTransform(Top.rot, Top.trans, r.m, t)
                  ELSE [rot |-> Top.rot, trans |-> Top.trans]
       IN  IF hasFrame /\ r.kind = "panic"
           THEN Panic("index")
           ELSE IF hasFrame /\ overflow_checks /\ ComposeOvf(Top.rot, Top.trans, t)
           THEN Panic("overflow")
           ELSE /\ stack' = Append(SetTop([Top EXCEPT !.rot = new.rot,
                                                      !.trans = new.trans,
                                                      !.next = 2]),
                                   Activation(Node.child, new.rot, new.trans))
                /\ UNCHANGED <<pc, panic, chunks, cells, aabbs, render, visits, last_write>>
    /\ UNCHANGED <<overflow_checks, store, pieces, dot_vox_data, placed, pending,
                   chunk_key, cell_idx, blocks, set_calls, unload_calls,
                   set_after_unload, decodeVars, classifyVars>>

\* The state a child of a Group is entered with.
GroupChildState(frame, k) == [rot |-> frame.rot, trans |-> frame.trans]

\* A Group node: the next child is entered with the Group's rot and trans.
EnterGroupChild ==
    /\ pc = "insert_scene"
    /\ stack /= <<>>
    /\ NodeKnown
    /\ Node.kind = "Group"
    /\ Top.next <= Len(Node.children)
    /\ LET s == GroupChildState(Top, Top.next)
       IN  stack' = Append(SetTop([Top EXCEPT !.next = @ + 1]),
                           Activation(Node.children[Top.next], s.rot, s.trans))
    /\ UNCHANGED <<overflow_checks, store, pieces, pc, panic, dot_vox_data, chunks, cells,
                   aabbs, render, placed, visits, last_write, pending, chunk_key, cell_idx,
                   blocks, set_calls, unload_calls, set_after_unload, decodeVars,
                   classifyVars>>

(***************************************************************************)
(* render_model.                                                           *)
(***************************************************************************)
\* The rotated size of the model.
RotatedSize(rot, msize) == MulMV(MapAbs(rot), msize)

\* Position of the min corner.
MinCorner(rot, trans, size) ==
    LET f == MulMV(rot, One3)
    IN  [i \in Axes |-> WrapSub(trans[i], TruncDiv(size[i] + Min(f[i], 0) * (-1), 2))]
MinCornerOvf(rot, trans, size) ==
    LET f == MulMV(rot, One3)
    IN  \E i \in Axes : SubOvf(trans[i], TruncDiv(size[i] + Min(f[i], 0) * (-1), 2))

\* The box pushed to aabbs.
PushedAabb(pos, size) == [min |-> pos, max |-> VAdd(pos, size)]

\* The corner pos + size.map(|e| e as i32 - 1) whose chunk ends the range.
LastCorner(pos, size) == VAdd(pos, [i \in Axes |-> size[i] - 1])

\* The keys of the loop "Insert required chunks".
RequiredChunks(pos, size) ==
    LET min_key == pos_key(pos)
        max_key == pos_key(LastCorner(pos, size))
    IN  {Vec(x, y, z) : x \in min_key[1]..max_key[1],
                        y \in min_key[2]..max_key[2],
                        z \in min_key[3]..max_key[3]}

\* The offset that re-anchors the axes the rotation flips.
VoxelOffset(rot, msize) ==
    LET e == MulMV(rot, msize)
    IN  [i \in Axes |-> IF e[i] > 0 THEN 0 ELSE (-e[i]) - 1]

BoxOvf(pos, size) ==
    VAddOvf(pos, size) \/ VAddOvf(pos, [i \in Axes |-> size[i] - 1])

Finished(frame, node) ==
    \/ node.kind = "Transform" /\ frame.next = 2
    \/ node.kind = "Group" /\ frame.next > Len(node.children)
    \/ node.kind = "Shape" /\ frame.next > Len(node.models)

\* A Shape node calls render_model for its next model: the box is pushed and
\* the chunks it needs are inserted; the voxels follow one by one.
ShapeRender ==
    /\ pc = "insert_scene"
    /\ stack /= <<>>
    /\ NodeKnown
    /\ Node.kind = "Shape"
    /\ Top.next <= Len(Node.models)
    /\ Node.models[Top.next] < Len(dot_vox_data.models)
    /\ LET id == Node.models[Top.next]
           model == dot_vox_data.models[id + 1]
           size == RotatedSize(Top.rot, model.size)
           pos == MinCorner(Top.rot, Top.trans, size)
       IN  /\ visits' = visits \cup {[scene |-> Top.scene, rot |-> Top.rot, trans |-> Top.trans]}
           /\ IF overflow_checks
                 /\ (MinCornerOvf(Top.rot, Top.trans, size) \/ BoxOvf(pos, size))
              THEN /\ pc' = "panic"
                   /\ panic' = "overflow"
                   /\ UNCHANGED <<aabbs, chunks, render>>
              ELSE /\ aabbs' = Append(aabbs, PushedAabb(pos, size))
                   /\ chunks' = chunks \cup RequiredChunks(pos, size)
                   /\ render' = [model |-> id, rot |-> Top.rot, size |-> size, pos |-> pos,
                                 offset |-> VoxelOffset(Top.rot, model.size), vi |-> 1]
                   /\ pc' = "render_model"
                   /\ UNCHANGED panic
    /\ UNCHANGED <<overflow_checks, store, pieces, dot_vox_data, stack, cells, placed,
                   last_write, pending, chunk_key, cell_idx, blocks, set_calls,
                   unload_calls, set_after_unload, decodeVars, classifyVars>>

\* A Shape node names a model the file does not hold: it is passed over.
ShapeSkip ==
    /\ pc = "insert_scene"
    /\ stack /= <<>>
    /\ NodeKnown
    /\ Node.kind = "Shape"
    /\ Top.next <= Len(Node.models)
    /\ Node.models[Top.next] >= Len(dot_vox_data.models)
    /\ stack' = SetTop([Top EXCEPT !.next = @ + 1])
    /\ UNCHANGED <<overflow_checks, store, pieces, pc, panic, dot_vox_data, chunks, cells,
                   aabbs, render, placed, visits, last_write, pending, chunk_key, cell_idx,
                   blocks, set_calls, unload_calls, set_after_unload, decodeVars,
                   classifyVars>>

\* The world position of a voxel.
VoxelPosition(r, voxel) ==
    VAdd(VAdd(MulMV(r.rot, Vec(voxel.x, voxel.y, voxel.z)), r.offset), r.pos)
VoxelPositionOvf(r, voxel) ==
    LET local == MulMV(r.rot, Vec(voxel.x, voxel.y, voxel.z))
    IN  \/ MulMVOvf(r.rot, Vec(voxel.x, voxel.y, voxel.z))
        \/ VAddOvf(local, r.offset)
        \/ VAddOvf(VAdd(local, r.offset), r.pos)

\* One turn of `for voxel in &model.voxels`: a voxel whose palette index has a
\* colour is set in the grid, and set's result is unwrapped.
RenderVoxel ==
    /\ pc = "render_model"
    /\ render.vi <= Len(dot_vox_data.models[render.model + 1].voxels)
    /\ LET voxel == dot_vox_data.models[render.model + 1].voxels[render.vi]
           wpos == VoxelPosition(render, voxel)
       IN  IF voxel.i >= Len(dot_vox_data.palette)
           THEN /\ render' = [render EXCEPT !.vi = @ + 1]
                /\ UNCHANGED <<pc, panic, cells, last_write>>
           ELSE IF overflow_checks /\ VoxelPositionOvf(render, voxel)
           THEN /\ pc' = "panic"
                /\ panic' = "overflow"
                /\ UNCHANGED <<render, cells, last_write>>
           ELSE IF pos_key(wpos) \notin chunks
           THEN /\ pc' = "panic"
                /\ panic' = "set_unwrap"
                /\ last_write' = <<wpos>>
                /\ UNCHANGED <<render, cells>>
           ELSE /\ cells' = (wpos :> CellNew(dot_vox_data.palette[voxel.i + 1],
                                             FALSE, FALSE, voxel.i = 16)) @@ cells
                /\ last_write' = <<wpos>>
                /\ render' = [render EXCEPT !.vi = @ + 1]
                /\ UNCHANGED <<pc, panic>>
    /\ UNCHANGED <<overflow_checks, store, pieces, dot_vox_data, stack, chunks, aabbs,
                   placed, visits, pending, chunk_key, cell_idx, blocks, set_calls,
                   unload_calls, set_after_unload, decodeVars, classifyVars>>

\* render_model returns to the Shape node's loop.
RenderReturn ==
    /\ pc = "render_model"
    /\ render.vi > Len(dot_vox_data.models[render.model + 1].voxels)
    /\ pc' = "insert_scene"
    /\ render' = NoRender
    /\ last_write' = <<>>
    /\ stack' = SetTop([Top EXCEPT !.next = @ + 1])
    /\ UNCHANGED <<overflow_checks, store, pieces, panic, dot_vox_data, chunks, cells,
                   aabbs, placed, visits, pending, chunk_key, cell_idx, blocks, set_calls,
                   unload_calls, set_after_unload, decodeVars, classifyVars>>

\* An activation of insert_scene returns; when it is the root's, new_from and
\* build_place return and main's loop over vox.iter() begins.
Return ==
    /\ pc = "insert_scene"
    /\ stack /= <<>>
    /\ NodeKnown
    /\ Finished(Top, Node)
    /\ stack' = SubSeq(stack, 1, Len(stack) - 1)
    /\ pc' = IF Len(stack) = 1 THEN "output" ELSE pc
    /\ pending' = IF Len(stack) = 1 THEN chunks ELSE pending
    /\ UNCHANGED <<overflow_checks, store, pieces, panic, dot_vox_data, chunks, cells,
                   aabbs, render, placed, visits, last_write, chunk_key, cell_idx, blocks,
                   set_calls, unload_calls, set_after_unload, decodeVars, classifyVars>>

(***************************************************************************)
(* main: the output loop.                                                  *)
(***************************************************************************)
CellAt(p) == IF p \in DOMAIN cells THEN cells[p] ELSE CellEmpty

\* vox.iter() yields the next chunk, in an order the map does not promise.
NextChunk ==
    /\ pc = "output"
    /\ chunk_key = <<>>
    /\ \E key \in pending :
         /\ chunk_key' = <<key>>
         /\ pending' = pending \ {key}
    /\ cell_idx' = 0
    /\ UNCHANGED <<overflow_checks, store, pieces, pc, panic, dot_vox_data, stack, chunks,
                   cells, aabbs, render, placed, visits, last_write, blocks, set_calls,
                   unload_calls, set_after_unload, decodeVars, classifyVars>>

\* One turn of `for (pos, cell) in chunk.full_vol_iter()`.
OutputCell ==
    /\ pc = "output"
    /\ chunk_key /= <<>>
    /\ LET offs == ChunkOffset(cell_idx)
           corner == key_pos(chunk_key[1])
           wpos == VAdd(corner, offs)
           inside == \E k \in 1..Len(aabbs) : contains_point(aabbs[k], wpos)
       IN  IF overflow_checks /\ VAddOvf(corner, offs)
           THEN /\ pc' = "panic"
                /\ panic' = "overflow"
                /\ UNCHANGED <<blocks, set_calls, set_after_unload, cell_idx, chunk_key>>
           ELSE /\ IF inside
                   THEN \E gen_bool \in BOOLEAN :
                          /\ blocks' = (wpos :> Classify(CellAt(wpos), gen_bool)) @@ blocks
                          /\ set_calls' = set_calls + 1
                          /\ set_after_unload' = (set_after_unload \/ unload_calls > 0)
                   ELSE UNCHANGED <<blocks, set_calls, set_after_unload>>
                /\ cell_idx' = IF cell_idx + 1 = CellsPerChunk THEN 0 ELSE cell_idx + 1
                /\ chunk_key' = IF cell_idx + 1 = CellsPerChunk THEN <<>> ELSE chunk_key
                /\ UNCHANGED <<pc, panic>>
    /\ UNCHANGED <<overflow_checks, store, pieces, dot_vox_data, stack, chunks, cells,
                   aabbs, render, placed, visits, last_write, pending, unload_calls,
                   decodeVars, classifyVars>>

\* persistance.unload_all() after the loop.
UnloadSkipped(n) == n
UnloadCalled(n) == n + 1
UnloadAll ==
    /\ pc = "output"
    /\ chunk_key = <<>>
    /\ pending = {}
    /\ unload_calls' = UnloadCalled(unload_calls)
    /\ pc' = "done"
    /\ UNCHANGED <<overflow_checks, store, pieces, panic, dot_vox_data, stack, chunks,
                   cells, aabbs, render, placed, visits, last_write, pending, chunk_key,
                   cell_idx, blocks, set_calls, set_after_unload, decodeVars, classifyVars>>

Next ==
    \/ BuildPlace
    \/ SceneUnwrapFails
    \/ EnterTransform
    \/ EnterGroupChild
    \/ ShapeRender
    \/ ShapeSkip
    \/ RenderVoxel
    \/ RenderReturn
    \/ Return
    \/ NextChunk
    \/ OutputCell
    \/ UnloadAll

Spec == Init /\ [][Next]_vars

(***************************************************************************)
(* The decoding on its own: every `_r` field a frame can hold.             *)
(***************************************************************************)
DecInit ==
    /\ NoRun
    /\ NoClassify
    /\ rfieldIn \in {<<>>} \cup {<<n>> : n \in 0..255}
    /\ decoded = Undecoded

Decode ==
    /\ decoded.kind = "pending"
    /\ decoded' = FrameRotation(rfieldIn)
    /\ UNCHANGED <<rfieldIn, runVars, classifyVars>>

DecNext == Decode

SpecDecode == DecInit /\ [][DecNext]_vars

(***************************************************************************)
(* The classification on its own: one cell, classified by two runs of the  *)
(* output loop, each with its own thread_rng.                              *)
(***************************************************************************)
Colours ==
    {WaterCol, LavaCol, LampCol, LianaCol, PotCol, GrassCol, ChestCol, BowlCol, Clay, Slate}
Cells ==
    {CellEmpty} \cup
    {CellNew(col, glowy, shiny, hollow) :
        col \in Colours, glowy \in BOOLEAN, shiny \in BOOLEAN, hollow \in BOOLEAN}

ClassInit ==
    /\ NoRun
    /\ NoDecode
    /\ cellIn \in Cells
    /\ run1 = <<>>
    /\ run2 = <<>>

ClassifyFirst ==
    /\ run1 = <<>>
    /\ \E gen_bool \in BOOLEAN : run1' = <<Classify(cellIn, gen_bool)>>
    /\ UNCHANGED <<cellIn, run2, runVars, decodeVars>>

ClassifySecond ==
    /\ run2 = <<>>
    /\ \E gen_bool \in BOOLEAN : run2' = <<Classify(cellIn, gen_bool)>>
    /\ UNCHANGED <<cellIn, run1, runVars, decodeVars>>

ClassNext == ClassifyFirst \/ ClassifySecond

SpecClassify == ClassInit /\ [][ClassNext]_vars

(***************************************************************************)
(* Claims about the decoding.                                              *)
(***************************************************************************)
Sel1(n) == n % 4
Sel2(n) == (n \div 4) % 4
ValidEncoding(n) == Sel1(n) /= Sel2(n) /\ Sel1(n) /= 3 /\ Sel2(n) /= 3

NonZeroInRow(m, i) == {j \in Axes : m[i][j] /= 0}
NonZeroInCol(m, j) == {i \in Axes : m[i][j] /= 0}
SignedPermutation(m) ==
    /\ \A i \in Axes : Cardinality(NonZeroInRow(m, i)) = 1
    /\ \A j \in Axes : Cardinality(NonZeroInCol(m, j)) = 1
    /\ \A i, j \in Axes : m[i][j] \in {-1, 0, 1}
Transpose(m) == [i \in Axes |-> [j \in Axes |-> m[j][i]]]
Orthogonal(m) == MulMM(m, Transpose(m)) = Identity
Det(m) ==
      m[1][1] * (m[2][2] * m[3][3] - m[2][3] * m[3][2])
    - m[1][2] * (m[2][1] * m[3][3] - m[2][3] * m[3][1])
    + m[1][3] * (m[2][1] * m[3][2] - m[2][2] * m[3][1])

\* C1: every valid encoding decodes to a matrix with exactly one nonzero
\* entry, +1 or -1, in each row and each column; the matrix is orthogonal and
\* its determinant is +1 or -1.
C1_ValidDecodesToSignedPermutation ==
    (decoded.kind /= "pending" /\ rfieldIn /= <<>> /\ ValidEncoding(rfieldIn[1]))
        => /\ decoded.kind = "some"
           /\ SignedPermutation(decoded.m)
           /\ Orthogonal(decoded.m)
           /\ Det(decoded.m) \in {1, -1}

\* A valid encoding with a sign bit and bit 7 set has been decoded to a
\* matrix other than the identity.
C1_Witness ==
    /\ rfieldIn = <<(128 + 32) + 9>>
    /\ decoded.kind = "some"
    /\ decoded.m /= Identity

\* C2: every invalid encoding is signalled as invalid and replaced by the
\* identity rotation; none yields a singular matrix and none aborts.
C2_InvalidFallsBackToIdentity ==
    (decoded.kind /= "pending" /\ rfieldIn /= <<>> /\ ~ValidEncoding(rfieldIn[1]))
        => (decoded.kind = "some" /\ decoded.m = Identity)

(***************************************************************************)
(* Claims about a run.                                                     *)
(***************************************************************************)
Assembled == pc \in {"output", "done"}

\* Every rotation the traversal holds has one entry of -1 or 1 in each row
\* and zeros elsewhere (products of decoded matrices, singular ones included).
RotEntriesOk ==
    \A k \in 1..Len(stack) :
        \A i \in Axes :
            /\ \A j \in Axes : stack[k].rot[i][j] \in {-1, 0, 1}
            /\ Cardinality({j \in Axes : stack[k].rot[i][j] /= 0}) = 1

BoxInside(a, b) ==
    \A i \in Axes : b.min[i] <= a.min[i] /\ a.max[i] <= b.max[i]

\* C3: once every model is rasterized, no box of the Bounding Region Set is
\* a strict subset of another box of the set.
C3_NoBoxInsideAnother ==
    Assembled =>
        \A i, j \in 1..Len(aabbs) :
            (i /= j /\ aabbs[i] /= aabbs[j]) => ~BoxInside(aabbs[i], aabbs[j])

\* C4: build_place calls new_from for every piece of the list, in order, each
\* with its own specifier and offset.
C4_EveryPiecePlaced ==
    Assembled =>
        \A k \in 1..Len(pieces) : k <= Len(placed) /\ placed[k] = pieces[k]

Unflagged(cell) == cell.filled /\ ~cell.hollow /\ ~cell.glowy /\ ~cell.shiny

\* C5: an occupied cell without flags is output as the misc block of its own
\* colour, whatever the colour; the (2,2,2) model with one voxel of colour
\* (4,119,191) at offset (0,0,0) leaves one occupied cell, at (-1,-1,-1),
\* output as misc (4,119,191).
C5_UnflaggedCellIsMisc ==
    /\ \A p \in DOMAIN blocks :
           Unflagged(CellAt(p)) => blocks[p] = BlockNew("Misc", CellAt(p).col)
    /\ (pc = "done" /\ dot_vox_data = SingleData /\ placed[1].offset = Zero3)
           => /\ DOMAIN cells = {Vec(-1, -1, -1)}
              /\ blocks[Vec(-1, -1, -1)] = BlockNew("Misc", WaterCol)

\* The positions of a chunk that lie in some box.
InSomeBox(p) == \E k \in 1..Len(aabbs) : contains_point(aabbs[k], p)
ChunkPositions(key) == {VAdd(key_pos(key), ChunkOffset(idx)) : idx \in 0..(CellsPerChunk - 1)}

\* C6: unload_all is called after the loop and never before: it has been
\* called once when the run is done and not at all before that, no set_block
\* call follows it, and when it is called every cell of every chunk that lies
\* in a box has had its set_block call.
C6_UnloadOnceAfterLastSet ==
    /\ unload_calls = (IF pc = "done" THEN 1 ELSE 0)
    /\ ~set_after_unload
    /\ pc = "done" =>
          /\ pending = {} /\ chunk_key = <<>>
          /\ \A key \in chunks : \A p \in ChunkPositions(key) :
                InSomeBox(p) => p \in DOMAIN blocks

\* A run is done after set_block calls for the cells of several chunks.
C6_Witness ==
    pc = "done" /\ unload_calls = 1 /\ set_calls > 1 /\ Cardinality(chunks) > 1

\* C7: two runs that classify the same cell give the same block.
C7_SameBlockInBothRuns ==
    (run1 /= <<>> /\ run2 /= <<>>) => run1 = run2

\* C8: every set of render_model targets a position of the box
\* [pos, pos + size - 1] in a chunk that is in the grid, and set's unwrap
\* never panics.
C8_WritesHitAllocatedChunks ==
    /\ panic /= "set_unwrap"
    /\ last_write /= <<>> =>
          /\ pos_key(last_write[1]) \in chunks
          /\ \A i \in Axes :
                /\ render.pos[i] <= last_write[1][i]
                /\ last_write[1][i] <= LastCorner(render.pos, render.size)[i]

\* In a build with overflow checks no set of render_model misses its chunk:
\* the failures are those of wrapped i32 arithmetic.
WritesHitAllocatedChunksWhenChecked ==
    overflow_checks => C8_WritesHitAllocatedChunks

\* C9: the box render_model pushes has corners pos and pos + size - 1; the
\* position one past the footprint on an axis is not contained in it.
C9_BoxIsTheFootprint ==
    pc = "render_model" =>
        LET box == aabbs[Len(aabbs)]
        IN  /\ box.min = render.pos
            /\ box.max = LastCorner(render.pos, render.size)
            /\ \A i \in Axes :
                  ~contains_point(box, [render.pos EXCEPT ![i] =
                                           WrapAdd(render.pos[i], render.size[i])])

\* The rotation and translation on the path from the root to node k: the
\* identity and the requested offset at the root; a Transform node with a
\* first frame (r, t) maps (R, T) to (R * r, T + R * t); other nodes pass
\* (R, T) on.
RequestedOffset == IF Len(pieces) > 0 THEN pieces[1].offset ELSE Zero3
ChildrenOf(node) ==
    CASE node.kind = "Transform" -> {node.child}
      [] node.kind = "Group" -> {node.children[c] : c \in 1..Len(node.children)}
      [] OTHER -> {}
ParentOf(k) ==
    CHOOSE p \in 0..(Len(dot_vox_data.scene) - 1) : k \in ChildrenOf(dot_vox_data.scene[p + 1])
RECURSIVE PathState(_)
PathState(k) ==
    IF k = 0 THEN [rot |-> Identity, trans |-> RequestedOffset]
    ELSE LET up == dot_vox_data.scene[ParentOf(k) + 1]
             s == PathState(ParentOf(k))
         IN  IF up.kind = "Transform" /\ Len(up.frames) > 0
             THEN [rot |-> MulMM(s.rot, FrameRotation(up.frames[1].r).m),
                   trans |-> VAdd(s.trans, MulMV(s.rot, FrameTranslation(up.frames[1].t)))]
             ELSE s

\* C10: a Shape node's models are rasterized with the rotation and
\* translation of the path from the root to that Shape, whatever was visited
\* before it.
C10_StateFollowsThePath ==
    \A v \in visits : [rot |-> v.rot, trans |-> v.trans] = PathState(v.scene)

\* Both Shapes under the Group were reached, under a root Transform that
\* rotates and translates.
C10_Witness ==
    /\ \E v \in visits : v.scene = 3 /\ v.rot /= Identity
    /\ \E v \in visits : v.scene = 5 /\ v.rot /= Identity /\ v.trans /= RequestedOffset
    /\ \E u, v \in visits : u.scene = 3 /\ v.scene = 5 /\ u.rot /= v.rot
====
